---------------------------- MODULE Spec2Model ----------------------------
(***************************************************************************)
(* Model of the stimpl tree-walking evaluator (src/stimpl/runtime.py).     *)
(*                                                                         *)
(* evaluate(expression, state) is translated case by case into recursive   *)
(* operators.  A Python exception is a result record whose err field is    *)
(* the exception class; it carries no value, type or state.  The text      *)
(* written by print() is returned in the out field (a sequence of          *)
(* characters), and the field calls is a history of the direct recursive   *)
(* calls the evaluation made, in order; calls is instrumentation only and  *)
(* never read by the evaluator.                                            *)
(*                                                                         *)
(* The state machine is a caller that threads the State returned by one    *)
(* call of evaluate into the next call, starting from EmptyState(), which  *)
(* is what run_stimpl does for its one call and what Sequence does for     *)
(* its elements.                                                           *)
(***************************************************************************)
EXTENDS Integers, Sequences, FiniteSets, TLC

(***************************************************************************)
(* Bounds of the model.                                                    *)
(***************************************************************************)
MaxFrames == 3     \* longest State chain the caller passes to a call
MaxIter == 3       \* most iterations of one `while result:` loop

(***************************************************************************)
(* Host (Python) values.  Every value carries its Python class, as Python  *)
(* objects do; a float is the exact rational num/den in lowest terms.      *)
(***************************************************************************)
None == <<"NoneType">>
PyInt(n) == <<"int", n>>
PyBool(b) == <<"bool", b>>
PyStr(s) == <<"str", s>>

Abs(n) == IF n < 0 THEN -n ELSE n

RECURSIVE Gcd(_, _)
Gcd(a, b) == IF b = 0 THEN a ELSE Gcd(b, a % b)

PyFloat(n, d) ==
  LET g == Gcd(Abs(n), Abs(d))
      s == IF d < 0 THEN -1 ELSE 1
  IN  <<"float", (s * n) \div g, (s * d) \div g>>

\* Python's // : the floor of the quotient, for either sign of the divisor.
FloorDiv(a, b) == IF b > 0 THEN a \div b ELSE (-a) \div (-b)

\* Code points of the characters the bounded string literals are built from.
Ord(c) == CASE c = "\n" -> 10 [] c = "a" -> 97 [] c = "b" -> 98 [] OTHER -> 0

RECURSIVE StrLt(_, _)
StrLt(s, t) ==
  IF t = <<>> THEN FALSE
  ELSE IF s = <<>> THEN TRUE
  ELSE IF Ord(Head(s)) # Ord(Head(t)) THEN Ord(Head(s)) < Ord(Head(t))
  ELSE StrLt(Tail(s), Tail(t))

\* left + right on two values of one class
PyAdd(l, r) ==
  CASE l[1] = "int" -> PyInt(l[2] + r[2])
    [] l[1] = "str" -> PyStr(l[2] \o r[2])
    [] l[1] = "float" -> PyFloat(l[2] * r[3] + r[2] * l[3], l[3] * r[3])

PySub(l, r) ==
  CASE l[1] = "int" -> PyInt(l[2] - r[2])
    [] l[1] = "float" -> PyFloat(l[2] * r[3] - r[2] * l[3], l[3] * r[3])

PyMul(l, r) ==
  CASE l[1] = "int" -> PyInt(l[2] * r[2])
    [] l[1] = "float" -> PyFloat(l[2] * r[2], l[3] * r[3])

\* right == 0 : Python compares across classes, False == 0 and 0.0 == 0
PyEqZero(v) ==
  CASE v[1] = "int" -> v[2] = 0
    [] v[1] = "float" -> v[2] = 0
    [] v[1] = "bool" -> v[2] = FALSE
    [] OTHER -> FALSE

\* left < right on two values of one class
PyLt(l, r) ==
  CASE l[1] = "int" -> l[2] < r[2]
    [] l[1] = "bool" -> (~l[2]) /\ r[2]
    [] l[1] = "str" -> StrLt(l[2], r[2])
    [] l[1] = "float" -> l[2] * r[3] < r[2] * l[3]

PyEq(l, r) == l = r

\* truth value of a bool, as `if result:` and `while result:` test it
Truthy(v) == v[1] = "bool" /\ v[2]

RECURSIVE Digits(_)
Digits(n) == IF n < 10 THEN <<ToString(n)>>
             ELSE Digits(n \div 10) \o <<ToString(n % 10)>>

FloatDigits == 4

RECURSIVE Fraction(_, _, _)
Fraction(rem, den, k) ==
  IF k = 0 THEN <<>>
  ELSE LET q == (rem * 10) \div den
           r == (rem * 10) % den
       IN  <<ToString(q)>> \o (IF r = 0 THEN <<>> ELSE Fraction(r, den, k - 1))

\* f"{value}" : the characters of str(value)
Format(v) ==
  CASE v[1] = "int" -> (IF v[2] < 0 THEN <<"-">> ELSE <<>>) \o Digits(Abs(v[2]))
    [] v[1] = "bool" -> (IF v[2] THEN <<"T", "r", "u", "e">>
                                 ELSE <<"F", "a", "l", "s", "e">>)
    [] v[1] = "str" -> v[2]
    [] v[1] = "float" -> (IF v[2] < 0 THEN <<"-">> ELSE <<>>)
                         \o Digits(Abs(v[2]) \div v[3]) \o <<".">>
                         \o Fraction(Abs(v[2]) % v[3], v[3], FloatDigits)
    [] OTHER -> <<"N", "o", "n", "e">>

\* print(text) : the text followed by the line terminator
print(text) == text \o <<"\n">>

(***************************************************************************)
(* Semantic type tags (stimpl.types) and error classes (stimpl.errors).    *)
(* Two tags are equal exactly when they are the same class.                *)
(***************************************************************************)
Unit == <<"Unit">>
Integer == <<"Integer">>
FloatingPoint == <<"FloatingPoint">>
String == <<"String">>
Boolean == <<"Boolean">>

InterpTypeError == "InterpTypeError"
InterpSyntaxError == "InterpSyntaxError"
InterpMathError == "InterpMathError"
\* not an exception: the `while result:` loop ran past MaxIter iterations
Diverges == "Diverges"

(***************************************************************************)
(* AST nodes (stimpl.expression), with the fields evaluate matches on.     *)
(***************************************************************************)
Ren == [kind |-> "Ren"]
IntLiteral(l) == [kind |-> "IntLiteral", literal |-> PyInt(l)]
FloatingPointLiteral(n, d) == [kind |-> "FloatingPointLiteral", literal |-> PyFloat(n, d)]
StringLiteral(l) == [kind |-> "StringLiteral", literal |-> PyStr(l)]
BooleanLiteral(l) == [kind |-> "BooleanLiteral", literal |-> PyBool(l)]
PrintNode(e) == [kind |-> "Print", to_print |-> e]
Sequence(es) == [kind |-> "Sequence", exprs |-> es]
Program(es) == [kind |-> "Program", exprs |-> es]
Variable(n) == [kind |-> "Variable", variable_name |-> n]
Assign(n, e) == [kind |-> "Assign", variable |-> Variable(n), value |-> e]
BinOp(k, l, r) == [kind |-> k, left |-> l, right |-> r]
Add(l, r) == BinOp("Add", l, r)
Subtract(l, r) == BinOp("Subtract", l, r)
Multiply(l, r) == BinOp("Multiply", l, r)
Divide(l, r) == BinOp("Divide", l, r)
And(l, r) == BinOp("And", l, r)
Or(l, r) == BinOp("Or", l, r)
Not(e) == [kind |-> "Not", expr |-> e]
If(c, t, f) == [kind |-> "If", condition |-> c, true |-> t, false |-> f]
Lt(l, r) == BinOp("Lt", l, r)
Lte(l, r) == BinOp("Lte", l, r)
Gt(l, r) == BinOp("Gt", l, r)
Gte(l, r) == BinOp("Gte", l, r)
Eq(l, r) == BinOp("Eq", l, r)
Ne(l, r) == BinOp("Ne", l, r)
While(c, b) == [kind |-> "While", condition |-> c, body |-> b]

(***************************************************************************)
(* Interpreter State: a chain of frames, newest first.  A frame holds      *)
(* variable_name and value = (variable_value, variable_type); its          *)
(* next_state is the rest of the sequence.                                 *)
(***************************************************************************)
EmptyState == <<>>

State(variable_name, variable_value, variable_type, next_state) ==
  <<[variable_name |-> variable_name,
     value |-> <<variable_value, variable_type>>]>> \o next_state

\* Mutant: the new frame replaces the nearest frame of its name.
set_value_replacing(self, variable_name, variable_value, variable_type) ==
  LET old == {i \in 1..Len(self) : self[i].variable_name = variable_name}
      nearest == CHOOSE i \in old : \A j \in old : i <= j
  IN  IF old = {}
        THEN State(variable_name, variable_value, variable_type, self)
        ELSE State(variable_name, variable_value, variable_type,
                   SubSeq(self, nearest + 1, Len(self)))

set_value(self, variable_name, variable_value, variable_type) ==
  State(variable_name, variable_value, variable_type, self)

RECURSIVE get_value_oldest(_, _)
\* Mutant: the lookup prefers the oldest frame of the name.
get_value_oldest(self, variable_name) ==
  IF self = EmptyState THEN None
  ELSE IF get_value_oldest(Tail(self), variable_name) # None
    THEN get_value_oldest(Tail(self), variable_name)
  ELSE IF self[1].variable_name = variable_name THEN self[1].value
  ELSE None

RECURSIVE get_value(_, _)
get_value(self, variable_name) ==
  IF self = EmptyState THEN None
  ELSE IF self[1].variable_name = variable_name THEN self[1].value
  ELSE get_value(Tail(self), variable_name)

(***************************************************************************)
(* Results of evaluate.  A log holds what an evaluation did besides        *)
(* computing its result: out, the characters it wrote; calls, the history  *)
(* of its direct recursive calls; binds, the history of the Assign         *)
(* evaluations that completed in it, nested ones included.                 *)
(***************************************************************************)
NoLog == [out |-> <<>>, calls |-> <<>>, binds |-> <<>>]

Join(a, b) ==
  [out |-> a.out \o b.out, calls |-> a.calls \o b.calls,
   binds |-> a.binds \o b.binds]

Return(value, type, state, log) ==
  [err |-> "none", value |-> value, type |-> type, state |-> state,
   log |-> log]

Raise(err, log) == [err |-> err, log |-> log]

Outcome(r) == IF r.err = "none" THEN <<r.value, r.type, r.state>> ELSE <<r.err>>

\* log of one recursive call evaluate(expression, state) that gave r
Called(expression, state, r) ==
  [out |-> r.log.out,
   calls |-> <<[expression |-> expression, state |-> state,
                outcome |-> Outcome(r), out |-> r.log.out]>>,
   binds |-> r.log.binds]

Wrote(text) == [out |-> text, calls |-> <<>>, binds |-> <<>>]

Bound(variable_name, value, type) ==
  [out |-> <<>>, calls |-> <<>>, binds |-> <<<<variable_name, value, type>>>>]

(***************************************************************************)
(* Main evaluation logic: evaluate(expression, state), one operator per    *)
(* case of the match.                                                      *)
(***************************************************************************)
RECURSIVE evaluate(_, _)

\* In each case the result of a recursive call is the argument of a local
\* operator that holds the rest of the case.

evaluate_Ren(expression, state) == Return(None, Unit, state, NoLog)

evaluate_IntLiteral(expression, state) ==
  Return(expression.literal, Integer, state, NoLog)

evaluate_FloatingPointLiteral(expression, state) ==
  Return(expression.literal, FloatingPoint, state, NoLog)

evaluate_StringLiteral(expression, state) ==
  Return(expression.literal, String, state, NoLog)

evaluate_BooleanLiteral(expression, state) ==
  Return(expression.literal, Boolean, state, NoLog)

\* Mutant: Unit is written as the text of its value.
evaluate_Print_no_unit(expression, state) ==
  LET printed(p) ==
        IF p.err # "none"
          THEN Raise(p.err, Called(expression.to_print, state, p))
          ELSE Return(p.value, p.type, p.state,
                      Join(Called(expression.to_print, state, p),
                           Wrote(print(Format(p.value)))))
  IN  printed(evaluate(expression.to_print, state))

evaluate_Print(expression, state) ==
  LET printed(p) ==
        IF p.err # "none"
          THEN Raise(p.err, Called(expression.to_print, state, p))
          ELSE LET printable_value == p.value
                   printable_type == p.type
                   new_state == p.state
                   written == IF printable_type = Unit
                                THEN print(<<"U", "n", "i", "t">>)
                                ELSE print(Format(printable_value))
               IN  Return(printable_value, printable_type, new_state,
                          Join(Called(expression.to_print, state, p),
                               Wrote(written)))
  IN  printed(evaluate(expression.to_print, state))

\* Mutant: the rest of the list is evaluated against the incoming state.
evaluate_Sequence_unthreaded(expression, state) ==
  LET exprs == expression.exprs
      rest == Sequence(Tail(exprs))
      empty(n) == Return(n.value, n.type, n.state, Called(Ren, state, n))
      last(h, t) ==
        IF t.err # "none"
          THEN Raise(t.err, Join(Called(exprs[1], state, h),
                                 Called(rest, state, t)))
          ELSE Return(t.value, t.type, t.state,
                      Join(Called(exprs[1], state, h),
                           Called(rest, state, t)))
      first(h) ==
        IF h.err # "none" THEN Raise(h.err, Called(exprs[1], state, h))
        ELSE IF Len(exprs) = 1
          THEN Return(h.value, h.type, h.state, Called(exprs[1], state, h))
        ELSE last(h, evaluate(rest, state))
  IN  IF Len(exprs) = 0 THEN empty(evaluate(Ren, state))
      ELSE first(evaluate(exprs[1], state))

evaluate_Sequence(expression, state) ==
  LET exprs == expression.exprs
      rest == Sequence(Tail(exprs))
      empty(n) == Return(n.value, n.type, n.state, Called(Ren, state, n))
      last(h, t) ==
        IF t.err # "none"
          THEN Raise(t.err, Join(Called(exprs[1], state, h),
                                 Called(rest, h.state, t)))
          ELSE Return(t.value, t.type, t.state,
                      Join(Called(exprs[1], state, h),
                           Called(rest, h.state, t)))
      first(h) ==
        IF h.err # "none" THEN Raise(h.err, Called(exprs[1], state, h))
        ELSE IF Len(exprs) = 1
          THEN Return(h.value, h.type, h.state, Called(exprs[1], state, h))
        ELSE last(h, evaluate(rest, h.state))
  IN  IF Len(exprs) = 0 THEN empty(evaluate(Ren, state))
      ELSE first(evaluate(exprs[1], state))

evaluate_Variable(expression, state) ==
  LET variable_name == expression.variable_name
      value == get_value(state, variable_name)
  IN  IF value = None THEN Raise(InterpSyntaxError, NoLog)
      ELSE Return(value[1], value[2], state, NoLog)

\* Mutant: no comparison of the value's type with the bound type.
evaluate_Assign_unchecked(expression, state) ==
  LET variable == expression.variable
      assign(v) ==
        IF v.err # "none" THEN Raise(v.err, Called(expression.value, state, v))
        ELSE Return(v.value, v.type,
                    set_value(v.state, variable.variable_name,
                              v.value, v.type),
                    Join(Called(expression.value, state, v),
                         Bound(variable.variable_name, v.value, v.type)))
  IN  assign(evaluate(expression.value, state))

\* Mutant: the bound type is looked up in the incoming state.
evaluate_Assign_incoming(expression, state) ==
  LET variable == expression.variable
      assign(v) ==
        IF v.err # "none" THEN Raise(v.err, Called(expression.value, state, v))
        ELSE LET variable_from_state ==
                   get_value(state, variable.variable_name)
                 variable_type == IF variable_from_state # None
                                    THEN variable_from_state[2] ELSE None
             IN  IF v.type # variable_type /\ variable_type # None
                   THEN Raise(InterpTypeError,
                              Called(expression.value, state, v))
                   ELSE Return(v.value, v.type,
                               set_value(v.state, variable.variable_name,
                                         v.value, v.type),
                               Join(Called(expression.value, state, v),
                                    Bound(variable.variable_name,
                                          v.value, v.type)))
  IN  assign(evaluate(expression.value, state))

evaluate_Assign(expression, state) ==
  LET variable == expression.variable
      assign(v) ==
        IF v.err # "none" THEN Raise(v.err, Called(expression.value, state, v))
        ELSE LET value_result == v.value
                 value_type == v.type
                 new_state == v.state
                 variable_from_state ==
                   get_value(new_state, variable.variable_name)
                 variable_type == IF variable_from_state # None
                                    THEN variable_from_state[2] ELSE None
             IN  IF value_type # variable_type /\ variable_type # None
                   THEN Raise(InterpTypeError,
                              Called(expression.value, state, v))
                   ELSE Return(value_result, value_type,
                               set_value(new_state, variable.variable_name,
                                         value_result, value_type),
                               Join(Called(expression.value, state, v),
                                    Bound(variable.variable_name,
                                          value_result, value_type)))
  IN  assign(evaluate(expression.value, state))

\* left_*, right_* of a binary case: left is evaluated against state, right
\* against the state left returned.
Operands(expression, state) ==
  LET both(l, r) ==
        IF r.err # "none"
          THEN Raise(r.err, Join(Called(expression.left, state, l),
                                 Called(expression.right, l.state, r)))
          ELSE [err |-> "none",
                left_result |-> l.value, left_type |-> l.type,
                right_result |-> r.value, right_type |-> r.type,
                new_state |-> r.state,
                log |-> Join(Called(expression.left, state, l),
                             Called(expression.right, l.state, r))]
      left(l) ==
        IF l.err # "none" THEN Raise(l.err, Called(expression.left, state, l))
        ELSE both(l, evaluate(expression.right, l.state))
  IN  left(evaluate(expression.left, state))

evaluate_Add(expression, state) ==
  LET apply(o) ==
        IF o.err # "none" THEN o
        ELSE IF o.left_type # o.right_type
          THEN Raise(InterpTypeError, o.log)
        ELSE IF o.left_type \in {Integer, String, FloatingPoint}
          THEN Return(PyAdd(o.left_result, o.right_result), o.left_type,
                      o.new_state, o.log)
        ELSE Raise(InterpTypeError, o.log)
  IN  apply(Operands(expression, state))

evaluate_Subtract(expression, state) ==
  LET apply(o) ==
        IF o.err # "none" THEN o
        ELSE IF o.left_type # o.right_type
          THEN Raise(InterpTypeError, o.log)
        ELSE IF o.left_type \in {Integer, FloatingPoint}
          THEN Return(PySub(o.left_result, o.right_result), o.left_type,
                      o.new_state, o.log)
        ELSE Raise(InterpTypeError, o.log)
  IN  apply(Operands(expression, state))

evaluate_Multiply(expression, state) ==
  LET apply(o) ==
        IF o.err # "none" THEN o
        ELSE IF o.left_type # o.right_type
          THEN Raise(InterpTypeError, o.log)
        ELSE IF o.left_type \in {Integer, FloatingPoint}
          THEN Return(PyMul(o.left_result, o.right_result), o.left_type,
                      o.new_state, o.log)
        ELSE Raise(InterpTypeError, o.log)
  IN  apply(Operands(expression, state))

\* Mutant: the zero check comes before the comparison of the types.
evaluate_Divide_zero_first(expression, state) ==
  LET apply(o) ==
        IF o.err # "none" THEN o
        ELSE IF PyEqZero(o.right_result)
          THEN Raise(InterpMathError, o.log)
        ELSE IF o.left_type # o.right_type
          THEN Raise(InterpTypeError, o.log)
        ELSE IF o.left_type = Integer
          THEN Return(PyInt(FloorDiv(o.left_result[2], o.right_result[2])),
                      o.left_type, o.new_state, o.log)
        ELSE IF o.left_type = FloatingPoint
          THEN Return(PyFloat(o.left_result[2] * o.right_result[3],
                              o.left_result[3] * o.right_result[2]),
                      o.left_type, o.new_state, o.log)
        ELSE Raise(InterpTypeError, o.log)
  IN  apply(Operands(expression, state))

evaluate_Divide(expression, state) ==
  LET apply(o) ==
        IF o.err # "none" THEN o
        ELSE IF o.left_type # o.right_type
          THEN Raise(InterpTypeError, o.log)
        ELSE IF PyEqZero(o.right_result)
          THEN Raise(InterpMathError, o.log)
        ELSE IF o.left_type = Integer
          THEN Return(PyInt(FloorDiv(o.left_result[2], o.right_result[2])),
                      o.left_type, o.new_state, o.log)
        ELSE IF o.left_type = FloatingPoint
          THEN Return(PyFloat(o.left_result[2] * o.right_result[3],
                              o.left_result[3] * o.right_result[2]),
                      o.left_type, o.new_state, o.log)
        ELSE Raise(InterpTypeError, o.log)
  IN  apply(Operands(expression, state))

\* Mutant: a false left operand decides And without the right operand.
evaluate_And_short_circuit(expression, state) ==
  LET both(o) ==
        IF o.err # "none" THEN o
        ELSE IF o.left_type # o.right_type
          THEN Raise(InterpTypeError, o.log)
        ELSE IF o.left_type = Boolean
          THEN Return(o.right_result, o.left_type, o.new_state, o.log)
        ELSE Raise(InterpTypeError, o.log)
      left(l) ==
        IF l.err # "none" THEN Raise(l.err, Called(expression.left, state, l))
        ELSE IF l.type = Boolean /\ ~Truthy(l.value)
          THEN Return(l.value, l.type, l.state,
                      Called(expression.left, state, l))
        ELSE both(Operands(expression, state))
  IN  left(evaluate(expression.left, state))

evaluate_And(expression, state) ==
  LET apply(o) ==
        IF o.err # "none" THEN o
        ELSE IF o.left_type # o.right_type
          THEN Raise(InterpTypeError, o.log)
        ELSE IF o.left_type = Boolean
          THEN Return(IF Truthy(o.left_result) THEN o.right_result
                                               ELSE o.left_result,
                      o.left_type, o.new_state, o.log)
        ELSE Raise(InterpTypeError, o.log)
  IN  apply(Operands(expression, state))

evaluate_Or(expression, state) ==
  LET apply(o) ==
        IF o.err # "none" THEN o
        ELSE IF o.left_type # o.right_type
          THEN Raise(InterpTypeError, o.log)
        ELSE IF o.left_type = Boolean
          THEN Return(IF Truthy(o.left_result) THEN o.left_result
                                               ELSE o.right_result,
                      o.left_type, o.new_state, o.log)
        ELSE Raise(InterpTypeError, o.log)
  IN  apply(Operands(expression, state))

evaluate_Not(expression, state) ==
  LET negate(e) ==
        IF e.err # "none" THEN Raise(e.err, Called(expression.expr, state, e))
        ELSE IF e.type = Boolean
          THEN Return(PyBool(~Truthy(e.value)), e.type, e.state,
                      Called(expression.expr, state, e))
        ELSE Raise(InterpTypeError, Called(expression.expr, state, e))
  IN  negate(evaluate(expression.expr, state))

\* Mutant: both branches are evaluated, the true one first, and the
\* result of the one the condition selects is returned.
evaluate_If_both(expression, state) ==
  LET chosen(c, t, f) ==
        IF t.err # "none"
          THEN Raise(t.err, Join(Called(expression.condition, state, c),
                                 Called(expression.true, c.state, t)))
        ELSE IF f.err # "none"
          THEN Raise(f.err, Join(Called(expression.condition, state, c),
                                 Called(expression.false, c.state, f)))
        ELSE IF Truthy(c.value)
          THEN Return(t.value, t.type, t.state,
                      Join(Called(expression.condition, state, c),
                           Called(expression.true, c.state, t)))
        ELSE Return(f.value, f.type, f.state,
                    Join(Called(expression.condition, state, c),
                         Called(expression.false, c.state, f)))
      decide(c) ==
        IF c.err # "none"
          THEN Raise(c.err, Called(expression.condition, state, c))
        ELSE IF c.type # Boolean
          THEN Raise(InterpTypeError, Called(expression.condition, state, c))
        ELSE chosen(c, evaluate(expression.true, c.state),
                    evaluate(expression.false, c.state))
  IN  decide(evaluate(expression.condition, state))

evaluate_If(expression, state) ==
  LET taken(c, branch, b) ==
        IF b.err # "none"
          THEN Raise(b.err, Join(Called(expression.condition, state, c),
                                 Called(branch, c.state, b)))
          ELSE Return(b.value, b.type, b.state,
                      Join(Called(expression.condition, state, c),
                           Called(branch, c.state, b)))
      decide(c) ==
        IF c.err # "none"
          THEN Raise(c.err, Called(expression.condition, state, c))
        ELSE IF c.type # Boolean
          THEN Raise(InterpTypeError, Called(expression.condition, state, c))
        ELSE IF Truthy(c.value)
          THEN taken(c, expression.true, evaluate(expression.true, c.state))
        ELSE taken(c, expression.false, evaluate(expression.false, c.state))
  IN  decide(evaluate(expression.condition, state))

evaluate_Lt(expression, state) ==
  LET apply(o) ==
        IF o.err # "none" THEN o
        ELSE IF o.left_type # o.right_type
          THEN Raise(InterpTypeError, o.log)
        ELSE IF o.left_type \in {Integer, Boolean, String, FloatingPoint}
          THEN Return(PyBool(PyLt(o.left_result, o.right_result)),
                      Boolean, o.new_state, o.log)
        ELSE IF o.left_type = Unit
          THEN Return(PyBool(FALSE), Boolean, o.new_state, o.log)
        ELSE Raise(InterpTypeError, o.log)
  IN  apply(Operands(expression, state))

evaluate_Lte(expression, state) ==
  LET apply(o) ==
        IF o.err # "none" THEN o
        ELSE IF o.left_type # o.right_type
          THEN Raise(InterpTypeError, o.log)
        ELSE IF o.left_type \in {Integer, Boolean, String, FloatingPoint}
          THEN Return(PyBool(PyLt(o.left_result, o.right_result)
                             \/ PyEq(o.left_result, o.right_result)),
                      Boolean, o.new_state, o.log)
        ELSE IF o.left_type = Unit
          THEN Return(PyBool(TRUE), Boolean, o.new_state, o.log)
        ELSE Raise(InterpTypeError, o.log)
  IN  apply(Operands(expression, state))

evaluate_Gt(expression, state) ==
  LET apply(o) ==
        IF o.err # "none" THEN o
        ELSE IF o.left_type # o.right_type
          THEN Raise(InterpTypeError, o.log)
        ELSE IF o.left_type \in {Integer, Boolean, String, FloatingPoint}
          THEN Return(PyBool(PyLt(o.right_result, o.left_result)),
                      Boolean, o.new_state, o.log)
        ELSE IF o.left_type = Unit
          THEN Return(PyBool(FALSE), Boolean, o.new_state, o.log)
        ELSE Raise(InterpTypeError, o.log)
  IN  apply(Operands(expression, state))

evaluate_Gte(expression, state) ==
  LET apply(o) ==
        IF o.err # "none" THEN o
        ELSE IF o.left_type # o.right_type
          THEN Raise(InterpTypeError, o.log)
        ELSE IF o.left_type \in {Integer, Boolean, String, FloatingPoint}
          THEN Return(PyBool(PyLt(o.right_result, o.left_result)
                             \/ PyEq(o.left_result, o.right_result)),
                      Boolean, o.new_state, o.log)
        ELSE IF o.left_type = Unit
          THEN Return(PyBool(TRUE), Boolean, o.new_state, o.log)
        ELSE Raise(InterpTypeError, o.log)
  IN  apply(Operands(expression, state))

evaluate_Eq(expression, state) ==
  LET apply(o) ==
        IF o.err # "none" THEN o
        ELSE IF o.left_type # o.right_type
          THEN Raise(InterpTypeError, o.log)
        ELSE IF o.left_type \in {Integer, Boolean, String, FloatingPoint}
          THEN Return(PyBool(PyEq(o.left_result, o.right_result)),
                      Boolean, o.new_state, o.log)
        ELSE IF o.left_type = Unit
          THEN Return(PyBool(TRUE), Boolean, o.new_state, o.log)
        ELSE Raise(InterpTypeError, o.log)
  IN  apply(Operands(expression, state))

evaluate_Ne(expression, state) ==
  LET apply(o) ==
        IF o.err # "none" THEN o
        ELSE IF o.left_type # o.right_type
          THEN Raise(InterpTypeError, o.log)
        ELSE IF o.left_type \in {Integer, Boolean, String, FloatingPoint}
          THEN Return(PyBool(~PyEq(o.left_result, o.right_result)),
                      Boolean, o.new_state, o.log)
        ELSE IF o.left_type = Unit
          THEN Return(PyBool(FALSE), Boolean, o.new_state, o.log)
        ELSE Raise(InterpTypeError, o.log)
  IN  apply(Operands(expression, state))

\* Mutant: the loop body runs once and its value is the result.
while_loop_body_value(expression, result, cond_type, new_state, log, n) ==
  LET once(b) ==
        IF b.err # "none"
          THEN Raise(b.err, Join(log, Called(expression.body, new_state, b)))
          ELSE Return(b.value, b.type, b.state,
                      Join(log, Called(expression.body, new_state, b)))
  IN  IF ~Truthy(result) THEN Return(result, cond_type, new_state, log)
      ELSE once(evaluate(expression.body, new_state))

\* The `while result:` loop, entered with the result of the latest
\* evaluation of the condition; n counts the iterations done.
RECURSIVE while_loop(_, _, _, _, _, _)
while_loop(expression, result, cond_type, new_state, log, n) ==
  LET again(b, c) ==
        IF c.err # "none"
          THEN Raise(c.err,
                     Join(log, Join(Called(expression.body, new_state, b),
                                    Called(expression.condition, b.state, c))))
        ELSE IF c.type # Boolean
          THEN Raise(InterpTypeError,
                     Join(log, Join(Called(expression.body, new_state, b),
                                    Called(expression.condition, b.state, c))))
        ELSE while_loop(expression, c.value, c.type, c.state,
                        Join(log, Join(Called(expression.body, new_state, b),
                                       Called(expression.condition, b.state, c))),
                        n + 1)
      iterate(b) ==
        IF b.err # "none"
          THEN Raise(b.err, Join(log, Called(expression.body, new_state, b)))
          ELSE again(b, evaluate(expression.condition, b.state))
  IN  IF ~Truthy(result) THEN Return(result, cond_type, new_state, log)
      ELSE IF n >= MaxIter THEN Raise(Diverges, log)
      ELSE iterate(evaluate(expression.body, new_state))

evaluate_While(expression, state) ==
  LET enter(c) ==
        IF c.err # "none"
          THEN Raise(c.err, Called(expression.condition, state, c))
        ELSE IF c.type # Boolean
          THEN Raise(InterpTypeError, Called(expression.condition, state, c))
        ELSE while_loop(expression, c.value, c.type, c.state,
                        Called(expression.condition, state, c), 0)
  IN  enter(evaluate(expression.condition, state))

evaluate(expression, state) ==
  CASE expression.kind = "Ren" -> evaluate_Ren(expression, state)
    [] expression.kind = "IntLiteral" -> evaluate_IntLiteral(expression, state)
    [] expression.kind = "FloatingPointLiteral" ->
         evaluate_FloatingPointLiteral(expression, state)
    [] expression.kind = "StringLiteral" ->
         evaluate_StringLiteral(expression, state)
    [] expression.kind = "BooleanLiteral" ->
         evaluate_BooleanLiteral(expression, state)
    [] expression.kind = "Print" -> evaluate_Print(expression, state)
    [] expression.kind \in {"Sequence", "Program"} ->
         evaluate_Sequence(expression, state)
    [] expression.kind = "Variable" -> evaluate_Variable(expression, state)
    [] expression.kind = "Assign" -> evaluate_Assign(expression, state)
    [] expression.kind = "Add" -> evaluate_Add(expression, state)
    [] expression.kind = "Subtract" -> evaluate_Subtract(expression, state)
    [] expression.kind = "Multiply" -> evaluate_Multiply(expression, state)
    [] expression.kind = "Divide" -> evaluate_Divide(expression, state)
    [] expression.kind = "And" -> evaluate_And(expression, state)
    [] expression.kind = "Or" -> evaluate_Or(expression, state)
    [] expression.kind = "Not" -> evaluate_Not(expression, state)
    [] expression.kind = "If" -> evaluate_If(expression, state)
    [] expression.kind = "Lt" -> evaluate_Lt(expression, state)
    [] expression.kind = "Lte" -> evaluate_Lte(expression, state)
    [] expression.kind = "Gt" -> evaluate_Gt(expression, state)
    [] expression.kind = "Gte" -> evaluate_Gte(expression, state)
    [] expression.kind = "Eq" -> evaluate_Eq(expression, state)
    [] expression.kind = "Ne" -> evaluate_Ne(expression, state)
    [] expression.kind = "While" -> evaluate_While(expression, state)
    [] OTHER -> Raise(InterpSyntaxError, NoLog)

(***************************************************************************)
(* The caller.  state is the State it holds: EmptyState() at first         *)
(* (run_stimpl), then the State the latest call returned.  expression,     *)
(* entry and result record the latest call evaluate(expression, entry)     *)
(* and what it gave; pc is "ready" before a call, "returned" after one     *)
(* that returned and "raised" after an exception, which ends the run.      *)
(* latest is a history variable: for each name, the value and type of the  *)
(* most recent Assign to it that completed in a call that returned, or     *)
(* None; at a call it is still the history before the call.                *)
(***************************************************************************)
VARIABLES pc, state, expression, entry, result, latest

vars == <<pc, state, expression, entry, result, latest>>

NoCall == "NoCall"

\* Bounded sets the calls draw their expressions from.
Names == {"x", "y"}

Variables == {Variable(n) : n \in Names}

Literals ==
  {Ren, IntLiteral(0), IntLiteral(1), FloatingPointLiteral(0, 1),
   FloatingPointLiteral(3, 2), StringLiteral(<<"a">>),
   StringLiteral(<<"a", "\n", "b">>), BooleanLiteral(TRUE),
   BooleanLiteral(FALSE)}

Init ==
  /\ pc = "ready"
  /\ state = EmptyState
  /\ expression = [kind |-> NoCall]
  /\ entry = EmptyState
  /\ result = Raise(NoCall, NoLog)
  /\ latest = [n \in Names |-> None]

\* Expressions that bind, write or raise, used as operands and elements.
BindX == Assign("x", IntLiteral(1))
BindXStr == Assign("x", StringLiteral(<<"a">>))
BindY == Assign("y", BooleanLiteral(TRUE))
IncrX == Assign("x", Add(Variable("x"), IntLiteral(1)))
WriteX == PrintNode(Variable("x"))
DivZero == Divide(IntLiteral(1), IntLiteral(0))

PrintOperands ==
  Literals \cup Variables \cup {PrintNode(IntLiteral(1)), BindX, DivZero}

SequenceElements == {Variable("x"), BindX, BindXStr, WriteX}

SequenceLists ==
  {<<>>} \cup {<<a>> : a \in SequenceElements}
         \cup {<<a, b>> : a, b \in SequenceElements}
         \cup {<<a, b, c>> : a, b, c \in SequenceElements}

ProgramLists == {l \in SequenceLists : Len(l) <= 2}

AssignValues ==
  {Ren, IntLiteral(0), IntLiteral(1), FloatingPointLiteral(0, 1),
   StringLiteral(<<"a", "\n", "b">>), BooleanLiteral(TRUE),
   Variable("x"), BindY, PrintNode(IntLiteral(1)),
   Sequence(<<BindXStr, IntLiteral(1)>>),
   Add(BindX, IntLiteral(1)), DivZero}

ArithOperands ==
  {IntLiteral(0), IntLiteral(1), FloatingPointLiteral(0, 1),
   FloatingPointLiteral(3, 2), StringLiteral(<<"a">>),
   BooleanLiteral(FALSE), Variable("x")}

LogicLeft ==
  {BooleanLiteral(TRUE), BooleanLiteral(FALSE), Variable("y"), IntLiteral(1)}

LogicRight ==
  {BooleanLiteral(TRUE), BooleanLiteral(FALSE), BindY,
   PrintNode(BooleanLiteral(FALSE)), Variable("x")}

NotOperands ==
  {BooleanLiteral(TRUE), BooleanLiteral(FALSE), IntLiteral(0),
   Variable("y"), BindY}

IfConditions ==
  {BooleanLiteral(TRUE), BooleanLiteral(FALSE), IntLiteral(1), BindY,
   PrintNode(BooleanLiteral(FALSE))}

IfBranches ==
  {IntLiteral(1), BindX, PrintNode(StringLiteral(<<"a">>)), Variable("y"),
   DivZero}

CompareOperands ==
  {Ren, IntLiteral(1), FloatingPointLiteral(3, 2),
   StringLiteral(<<"a", "\n", "b">>), Variable("x")}

WhileConditions ==
  {BooleanLiteral(FALSE), BooleanLiteral(TRUE), IntLiteral(0),
   Variable("y"), Lt(Variable("x"), IntLiteral(2)),
   PrintNode(Lt(Variable("x"), IntLiteral(1)))}

WhileBodies ==
  {IncrX, WriteX, Sequence(<<WriteX, IncrX>>),
   Assign("y", BooleanLiteral(FALSE)), BindXStr}

RECURSIVE Record(_, _)
\* latest after the Assign evaluations binds, oldest first
Record(l, binds) ==
  IF binds = <<>> THEN l
  ELSE Record([l EXCEPT ![binds[1][1]] = <<binds[1][2], binds[1][3]>>],
              Tail(binds))

\* One call evaluate(e, state) that returned or raised r.
Receive(e, r) ==
  /\ r.err # Diverges
  /\ pc' = IF r.err = "none" THEN "returned" ELSE "raised"
  /\ expression' = e
  /\ entry' = state
  /\ result' = r
  /\ state' = IF r.err = "none" THEN r.state ELSE state
  /\ UNCHANGED latest

Call(e) == Receive(e, evaluate(e, state))

\* The caller keeps the State the call returned and drops the value and
\* the type, as Sequence does between two elements.
Thread ==
  /\ pc = "returned"
  /\ pc' = "ready"
  /\ expression' = [kind |-> NoCall]
  /\ entry' = state
  /\ result' = Raise(NoCall, NoLog)
  /\ latest' = Record(latest, result.log.binds)
  /\ UNCHANGED state

\* The caller may call while the State it holds has at most MaxFrames frames.
Ready == pc = "ready" /\ Len(state) <= MaxFrames

EvalRen ==
  /\ Ready
  /\ Call(Ren)

EvalIntLiteral ==
  /\ Ready
  /\ \E l \in {0, 1} : Call(IntLiteral(l))

EvalFloatingPointLiteral ==
  /\ Ready
  /\ \E e \in {FloatingPointLiteral(0, 1), FloatingPointLiteral(3, 2)} :
       Call(e)

EvalStringLiteral ==
  /\ Ready
  /\ \E l \in {<<"a">>, <<"a", "\n", "b">>} : Call(StringLiteral(l))

EvalBooleanLiteral ==
  /\ Ready
  /\ \E l \in BOOLEAN : Call(BooleanLiteral(l))

EvalPrint ==
  /\ Ready
  /\ \E e \in PrintOperands : Call(PrintNode(e))

EvalSequence ==
  /\ Ready
  /\ \E l \in SequenceLists : Call(Sequence(l))

EvalProgram ==
  /\ Ready
  /\ \E l \in ProgramLists : Call(Program(l))

EvalVariable ==
  /\ Ready
  /\ \E n \in Names : Call(Variable(n))

EvalAssign ==
  /\ Ready
  /\ \E n \in Names, e \in AssignValues : Call(Assign(n, e))

EvalAdd ==
  /\ Ready
  /\ \E l, r \in ArithOperands : Call(Add(l, r))

EvalSubtract ==
  /\ Ready
  /\ \E l, r \in ArithOperands : Call(Subtract(l, r))

EvalMultiply ==
  /\ Ready
  /\ \E l, r \in ArithOperands : Call(Multiply(l, r))

EvalDivide ==
  /\ Ready
  /\ \E l, r \in ArithOperands : Call(Divide(l, r))

EvalAnd ==
  /\ Ready
  /\ \E l \in LogicLeft, r \in LogicRight : Call(And(l, r))

EvalOr ==
  /\ Ready
  /\ \E l \in LogicLeft, r \in LogicRight : Call(Or(l, r))

EvalNot ==
  /\ Ready
  /\ \E e \in NotOperands : Call(Not(e))

EvalIf ==
  /\ Ready
  /\ \E c \in IfConditions, t, f \in IfBranches : Call(If(c, t, f))

EvalLt ==
  /\ Ready
  /\ \E l, r \in CompareOperands : Call(Lt(l, r))

EvalLte ==
  /\ Ready
  /\ \E l, r \in CompareOperands : Call(Lte(l, r))

EvalGt ==
  /\ Ready
  /\ \E l, r \in CompareOperands : Call(Gt(l, r))

EvalGte ==
  /\ Ready
  /\ \E l, r \in CompareOperands : Call(Gte(l, r))

EvalEq ==
  /\ Ready
  /\ \E l, r \in CompareOperands : Call(Eq(l, r))

EvalNe ==
  /\ Ready
  /\ \E l, r \in CompareOperands : Call(Ne(l, r))

EvalWhile ==
  /\ Ready
  /\ \E c \in WhileConditions, b \in WhileBodies : Call(While(c, b))

EvalUnhandled ==
  /\ Ready
  /\ Call([kind |-> "Unhandled"])

Next ==
  \/ EvalRen
  \/ EvalIntLiteral
  \/ EvalFloatingPointLiteral
  \/ EvalStringLiteral
  \/ EvalBooleanLiteral
  \/ EvalPrint
  \/ EvalSequence
  \/ EvalProgram
  \/ EvalVariable
  \/ EvalAssign
  \/ EvalAdd
  \/ EvalSubtract
  \/ EvalMultiply
  \/ EvalDivide
  \/ EvalAnd
  \/ EvalOr
  \/ EvalNot
  \/ EvalIf
  \/ EvalLt
  \/ EvalLte
  \/ EvalGt
  \/ EvalGte
  \/ EvalEq
  \/ EvalNe
  \/ EvalWhile
  \/ EvalUnhandled
  \/ Thread

Spec == Init /\ [][Next]_vars

(***************************************************************************)
(* Vocabulary of the properties.  They read the recorded call: expression, *)
(* entry, result, and the history result.log.calls of its direct           *)
(* recursive calls.                                                        *)
(***************************************************************************)
calls == result.log.calls

Succeeded(c) == Len(c.outcome) = 3
ValueOf(c) == c.outcome[1]
TypeOf(c) == c.outcome[2]
StateOf(c) == c.outcome[3]

Indices(chain, name) ==
  {i \in 1..Len(chain) : chain[i].variable_name = name}

Min(S) == CHOOSE i \in S : \A j \in S : i <= j

\* (value, type) of the frame nearest the head that binds name, or None
Nearest(chain, name) ==
  IF Indices(chain, name) = {} THEN None
  ELSE chain[Min(Indices(chain, name))].value

TypeConsistent(chain) ==
  \A i, j \in 1..Len(chain) :
     chain[i].variable_name = chain[j].variable_name
       => chain[i].value[2] = chain[j].value[2]

IsSuffix(old, new) ==
  /\ Len(old) <= Len(new)
  /\ SubSeq(new, Len(new) - Len(old) + 1, Len(new)) = old

RECURSIVE OutOf(_)
\* what the calls of a history wrote, in the order of the calls
OutOf(cs) == IF cs = <<>> THEN <<>> ELSE cs[1].out \o OutOf(Tail(cs))

LineTerminators(text) == Cardinality({i \in 1..Len(text) : text[i] = "\n"})

\* the characters the call itself wrote after those of its recursive calls
OwnOut == SubSeq(result.log.out, Len(OutOf(calls)) + 1, Len(result.log.out))

TypeOK ==
  /\ pc \in {"ready", "returned", "raised"}
  /\ pc = "returned" <=> result.err = "none"
  /\ pc = "ready" <=> result.err = NoCall
  /\ pc = "raised" =>
       result.err \in {InterpTypeError, InterpSyntaxError, InterpMathError}

AssignCase ==
  /\ expression.kind = "Assign"
  /\ Len(calls) = 1
  /\ Succeeded(calls[1])

\* C1: every State a call returns, and every State a recursive call of it
\* returned, gives all the frames of one name the same type tag; an Assign
\* whose value has another type than a frame of its name in the State it was
\* called with raises InterpTypeError and the caller's State gains no frame;
\* an Assign to a name no frame binds returns, whatever the type.
C1_TypeFixed ==
  /\ TypeConsistent(state)
  /\ \A i \in 1..Len(calls) :
        Succeeded(calls[i]) => TypeConsistent(StateOf(calls[i]))
  /\ AssignCase =>
       LET name == expression.variable.variable_name
       IN  /\ (\E i \in Indices(entry, name) :
                  entry[i].value[2] # TypeOf(calls[1]))
               => /\ pc = "raised"
                  /\ result.err = InterpTypeError
                  /\ state = entry
           /\ Indices(StateOf(calls[1]), name) = {}
               => /\ pc = "returned"
                  /\ state[1].variable_name = name
                  /\ state[1].value[2] = TypeOf(calls[1])

\* x is bound to Integer and Assign(x, a FloatingPoint value) raised
C1_Witness ==
  /\ AssignCase
  /\ pc = "raised"
  /\ result.err = InterpTypeError
  /\ TypeOf(calls[1]) = FloatingPoint
  /\ Nearest(entry, expression.variable.variable_name) # None
  /\ Nearest(entry, expression.variable.variable_name)[2] = Integer

NumericTypes == {Integer, FloatingPoint}

DivideByZeroCase ==
  /\ expression.kind = "Divide"
  /\ Len(calls) = 2
  /\ Succeeded(calls[1])
  /\ Succeeded(calls[2])
  /\ TypeOf(calls[1]) \in NumericTypes
  /\ TypeOf(calls[2]) \in NumericTypes
  /\ PyEqZero(ValueOf(calls[2]))

\* C2 as claimed: Divide with numeric operands and a zero right operand
\* raises InterpMathError, also when the operand types differ.
C2_AsClaimed ==
  DivideByZeroCase => pc = "raised" /\ result.err = InterpMathError

\* C2: Divide with numeric operands and a zero right operand raises
\* InterpMathError when both operands have the same type, for Integer and
\* for FloatingPoint alike; when the types differ it raises InterpTypeError,
\* the type comparison being decided before the zero check.
C2_DivideByZero ==
  DivideByZeroCase =>
    /\ pc = "raised"
    /\ result.err = IF TypeOf(calls[1]) = TypeOf(calls[2])
                      THEN InterpMathError ELSE InterpTypeError

\* 1.5 / 0.0 raised InterpMathError
C2_Witness ==
  /\ DivideByZeroCase
  /\ TypeOf(calls[1]) = FloatingPoint
  /\ TypeOf(calls[2]) = FloatingPoint
  /\ ~PyEqZero(ValueOf(calls[1]))
  /\ result.err = InterpMathError

LogicCase ==
  /\ expression.kind \in {"And", "Or"}
  /\ Len(calls) >= 1
  /\ Succeeded(calls[1])

\* C3: in And and Or, once the left operand has returned, the right operand
\* is evaluated, against the State the left operand returned, whatever the
\* left value; when the call returns, its State is the one the right
\* operand returned and its output is the left operand's followed by the
\* right operand's.
C3_NoShortCircuit ==
  LogicCase =>
    /\ Len(calls) = 2
    /\ calls[1].expression = expression.left
    /\ calls[1].state = entry
    /\ calls[2].expression = expression.right
    /\ calls[2].state = StateOf(calls[1])
    /\ result.log.out = calls[1].out \o calls[2].out
    /\ pc = "returned" =>
         /\ Succeeded(calls[2])
         /\ state = StateOf(calls[2])

\* And(false, Assign(..)) returned with the frame of the Assign
C3_Witness ==
  /\ LogicCase
  /\ expression.kind = "And"
  /\ pc = "returned"
  /\ ValueOf(calls[1]) = PyBool(FALSE)
  /\ expression.right.kind = "Assign"
  /\ Len(state) = Len(entry) + 1
  /\ state[1].variable_name = expression.right.variable.variable_name

WhileCase == expression.kind = "While" /\ pc = "returned"

\* C4: a While that returns gives (false, Boolean) and the State of its
\* last evaluation of the condition; its recursive calls are condition,
\* body, condition, ..., condition, each against the State the one before
\* returned (the first against the State of the call); every evaluation of
\* the condition but the last gave true and is followed by one evaluation
\* of the body, and the last gave false.
C4_While ==
  WhileCase =>
    LET n == Len(calls)
    IN  /\ n % 2 = 1
        /\ result.value = PyBool(FALSE)
        /\ result.type = Boolean
        /\ \A i \in 1..n :
             /\ Succeeded(calls[i])
             /\ calls[i].expression = IF i % 2 = 1 THEN expression.condition
                                                   ELSE expression.body
             /\ calls[i].state = IF i = 1 THEN entry ELSE StateOf(calls[i - 1])
             /\ i % 2 = 1 =>
                  /\ TypeOf(calls[i]) = Boolean
                  /\ ValueOf(calls[i]) = PyBool(i < n)
        /\ state = StateOf(calls[n])
        /\ result.log.out = OutOf(calls)

\* a While that returned after two iterations of a body that binds
C4_Witness ==
  /\ WhileCase
  /\ Len(calls) = 5
  /\ Len(state) = Len(entry) + 2

IfCase ==
  /\ expression.kind = "If"
  /\ Len(calls) >= 1
  /\ Succeeded(calls[1])
  /\ TypeOf(calls[1]) = Boolean

Taken ==
  IF ValueOf(calls[1]) = PyBool(TRUE) THEN expression.true
                                      ELSE expression.false

\* C5: an If whose condition returned a Boolean makes exactly one more
\* recursive call, of the true branch when the value is true and of the
\* false branch otherwise, against the State the condition returned; what
\* that call gives (value, type and State, or the exception) is what the
\* If gives, and the output is the condition's followed by the branch's.
C5_IfOneBranch ==
  IfCase =>
    /\ Len(calls) = 2
    /\ calls[1].expression = expression.condition
    /\ calls[1].state = entry
    /\ calls[2].expression = Taken
    /\ calls[2].state = StateOf(calls[1])
    /\ Outcome(result) = calls[2].outcome
    /\ result.log.out = calls[1].out \o calls[2].out

\* If(true, Assign(..), 1 / 0) returned: the false branch would have raised
C5_Witness ==
  /\ IfCase
  /\ pc = "returned"
  /\ ValueOf(calls[1]) = PyBool(TRUE)
  /\ expression.true.kind = "Assign"
  /\ expression.false = DivZero
  /\ Len(state) = Len(entry) + 1

\* C6: Variable(x) returns the value and the type of the most recent Assign
\* to x that completed in the calls threaded so far, and the State it was
\* called with; it raises InterpSyntaxError when no Assign to x completed.
\* An Assign to x of a value of the type of the most recent Assign to x
\* returns.
C6_Lookup ==
  /\ (expression.kind = "Variable" /\ pc # "ready") =>
       LET recent == latest[expression.variable_name]
       IN  IF recent = None
             THEN pc = "raised" /\ result.err = InterpSyntaxError
             ELSE /\ pc = "returned"
                  /\ <<result.value, result.type>> = recent
                  /\ state = entry
  /\ (AssignCase /\ StateOf(calls[1]) = entry) =>
       LET recent == latest[expression.variable.variable_name]
       IN  (recent # None /\ recent[2] = TypeOf(calls[1]))
              => pc = "returned"

\* Variable(x) returned after two Assigns of different values to x
C6_Witness ==
  /\ expression.kind = "Variable"
  /\ pc = "returned"
  /\ \E i, j \in Indices(entry, expression.variable_name) :
        i < j /\ entry[i].value # entry[j].value
  /\ \E k \in 1..Len(entry) :
        /\ entry[k].variable_name # expression.variable_name
        /\ k < Min(Indices(entry, expression.variable_name))

RECURSIVE InOrder(_, _, _)
\* The elements of exprs evaluated one after the other, each against the
\* State the one before returned: the outcome of the last one and the
\* output of all of them.
InOrder(exprs, st, out) ==
  LET r == evaluate(exprs[1], st)
  IN  IF r.err # "none" THEN <<Outcome(r), out \o r.log.out>>
      ELSE IF Len(exprs) = 1 THEN <<Outcome(r), out \o r.log.out>>
      ELSE InOrder(Tail(exprs), r.state, out \o r.log.out)

SequenceCase == expression.kind \in {"Sequence", "Program"} /\ pc = "returned"

\* C7: a Sequence or Program of n >= 1 expressions that returns gives the
\* value, type and State of its last expression, the expressions being
\* evaluated in list order, the first against the State of the call and
\* each later one against the State the one before returned; for n = 0 it
\* gives (None, Unit) and the State of the call, and writes nothing.
C7_Sequence ==
  SequenceCase =>
    IF Len(expression.exprs) = 0
      THEN Outcome(result) = <<None, Unit, entry>> /\ result.log.out = <<>>
      ELSE <<Outcome(result), result.log.out>>
             = InOrder(expression.exprs, entry, <<>>)

\* a Sequence of three expressions returned, having bound and written
C7_Witness ==
  /\ SequenceCase
  /\ Len(expression.exprs) = 3
  /\ expression.exprs[1].kind = "Assign"
  /\ expression.exprs[2].kind = "Print"
  /\ expression.exprs[3].kind = "Variable"
  /\ Indices(entry, "x") = {}

PrintCase ==
  /\ expression.kind = "Print"
  /\ pc = "returned"
  /\ Len(calls) = 1
  /\ Succeeded(calls[1])

\* the text Print writes for the value its operand returned
PrintedText ==
  IF result.type = Unit THEN <<"U", "n", "i", "t">> ELSE Format(result.value)

Transparent == Outcome(result) = calls[1].outcome

\* the output of every call is that of its recursive calls, in the order of
\* the calls, followed by what the call itself wrote
OutputInOrder ==
  pc # "ready" =>
    /\ Len(OutOf(calls)) <= Len(result.log.out)
    /\ SubSeq(result.log.out, 1, Len(OutOf(calls))) = OutOf(calls)
    /\ ~(expression.kind = "Print" /\ pc = "returned") => OwnOut = <<>>

\* C8 as claimed: Print gives what its operand gave and appends exactly one
\* line to the output.
C8_AsClaimed ==
  PrintCase =>
    /\ Transparent
    /\ OwnOut = PrintedText \o <<"\n">>
    /\ LineTerminators(OwnOut) = 1

\* C8: Print gives the value, type and State its operand gave and appends,
\* after the operand's own output, one text followed by one line
\* terminator: "Unit" when the type is Unit, otherwise the value's textual
\* form.  That is exactly one line unless the value is a String that holds
\* line terminators itself.  The output of every call is that of its
\* recursive calls in evaluation order.
C8_PrintOneWrite ==
  /\ OutputInOrder
  /\ PrintCase =>
       /\ Transparent
       /\ OwnOut = PrintedText \o <<"\n">>
       /\ LineTerminators(OwnOut) = 1 + LineTerminators(PrintedText)
       /\ (result.type # String => LineTerminators(OwnOut) = 1)

\* Print(Print(..)) of a Unit or number returned: two lines, inner first
C8_Witness ==
  /\ PrintCase
  /\ expression.to_print.kind = "Print"
  /\ LineTerminators(result.log.out) = 2
  /\ calls[1].out # <<>>

\* C9: Assign compares the type of its value with the binding of its name
\* in the State the value expression returned: when the nearest frame of
\* the name there has another type, the Assign raises InterpTypeError, also
\* when the State of the call binds the name nowhere; when the Assign
\* returns, its State is one frame on top of the State the value
\* expression returned.
C9_AssignAfterValue ==
  AssignCase =>
    LET name == expression.variable.variable_name
        bound == Nearest(StateOf(calls[1]), name)
    IN  /\ (bound # None /\ bound[2] # TypeOf(calls[1]))
            => pc = "raised" /\ result.err = InterpTypeError
        /\ (bound = None \/ bound[2] = TypeOf(calls[1]))
            => /\ pc = "returned"
               /\ Len(state) = Len(StateOf(calls[1])) + 1
               /\ IsSuffix(StateOf(calls[1]), state)
               /\ IsSuffix(entry, StateOf(calls[1]))

\* x unbound at the call, bound by the value expression to another type
C9_Witness ==
  /\ AssignCase
  /\ pc = "raised"
  /\ result.err = InterpTypeError
  /\ Indices(entry, expression.variable.variable_name) = {}
  /\ Indices(StateOf(calls[1]), expression.variable.variable_name) # {}

ReturnedAssign == AssignCase /\ pc = "returned"

\* C10 as claimed: the new frame of an Assign that re-binds a name is
\* linked to the tail of the old frame of that name; of a first Assign, to
\* the State it was built from.
C10_AsClaimed ==
  ReturnedAssign =>
    LET name == expression.variable.variable_name
        built == StateOf(calls[1])
        old == Indices(built, name)
    IN  /\ state[1] = [variable_name |-> name,
                       value |-> <<result.value, result.type>>]
        /\ Tail(state) = IF old = {} THEN built
                         ELSE SubSeq(built, Min(old) + 1, Len(built))

\* C10: the new frame of an Assign that returns holds the name, the value
\* and the type, and is linked to the State it was built from (the one the
\* value expression returned), for a first Assign and for one that
\* re-binds a name alike; the superseded frame stays beneath the new one.
\* The frames of the State of the call are all still there, unchanged.
C10_FrameOnTop ==
  ReturnedAssign =>
    LET name == expression.variable.variable_name
        built == StateOf(calls[1])
    IN  /\ state[1] = [variable_name |-> name,
                       value |-> <<result.value, result.type>>]
        /\ Tail(state) = built
        /\ IsSuffix(entry, state)

\* an Assign that re-binds a name returned
C10_Witness ==
  /\ ReturnedAssign
  /\ Indices(entry, expression.variable.variable_name) # {}
  /\ Nearest(entry, expression.variable.variable_name)[1] # result.value

=============================================================================
